---- MODULE Spec2Model ----
(***************************************************************************)
(* Model of the product listing logic of gentonje/bestbuy:                 *)
(*   - expo/src/hooks/useProducts.ts      (paginated fetcher hook)         *)
(*   - src/components/ModifyProductsList.tsx (local filter / sort view)    *)
(* Strings whose characters matter (search text, titles, names) are        *)
(* sequences of one-character strings; other strings are TLA+ strings.     *)
(***************************************************************************)
EXTENDS Integers, Sequences, FiniteSets, TLC

(***************************************************************************)
(* Bounds of the model.                                                    *)
(***************************************************************************)
\* longest input collection handed to the local view
MaxProducts == 3
\* longest search text typed into the local view
MaxSearchLen == 1

\* largest page index handed to fetchProducts on its own
MaxPage == 2
\* largest page size a caller passes
MaxLimit == 2

\* most rows the remote store holds for a query
MaxRows == 3
\* most calls of the hook's operations, prop changes and remote errors in
\* a run, taken together
MaxOps == 2

\* An optional value is a sequence of at most one element.
\* the absent value (undefined / null)
None == <<>>
Some(x) == <<x>>
IsNone(o) == Len(o) = 0

(***************************************************************************)
(* JavaScript string operations used by the local view.                    *)
(***************************************************************************)
\* characters a search text is made of
SearchChars == {"a", "A", " "}

\* String.prototype.toLowerCase on one character
LowerChar(c) ==
  CASE c = "A" -> "a"
    [] c = "B" -> "b"
    [] OTHER -> c

\* String.prototype.toLowerCase
toLowerCase(s) == [i \in 1..Len(s) |-> LowerChar(s[i])]

IsSpace(c) == c = " "

\* String.prototype.trim: drops leading and trailing white space
RECURSIVE trimLeft(_)
trimLeft(s) ==
  IF s = <<>> THEN <<>>
  ELSE IF IsSpace(Head(s)) THEN trimLeft(Tail(s)) ELSE s

RECURSIVE trimRight(_)
trimRight(s) ==
  IF s = <<>> THEN <<>>
  ELSE IF IsSpace(s[Len(s)]) THEN trimRight(SubSeq(s, 1, Len(s) - 1)) ELSE s

trim(s) == trimRight(trimLeft(s))

\* String.prototype.includes: t occurs in s as a contiguous substring
includes(s, t) ==
  \E i \in 0..(Len(s) - Len(t)) : SubSeq(s, i + 1, i + Len(t)) = t

\* a?.toLowerCase().includes(t) is undefined (falsy) when a is absent
OptLowerIncludes(a, t) ==
  IF IsNone(a) THEN FALSE ELSE includes(toLowerCase(a[1]), t)

\* all search texts of at most n characters
RECURSIVE StringsUpTo(_)
StringsUpTo(n) ==
  IF n = 0 THEN {<<>>}
  ELSE LET prev == StringsUpTo(n - 1)
       IN prev \cup {Append(s, c) : s \in {x \in prev : Len(x) = n - 1}, c \in SearchChars}

(***************************************************************************)
(* Products shown by the local view.                                       *)
(***************************************************************************)
\* created_at is a timestamp text; here <<month, day>> of one year
\* new Date(created_at).getTime(), in days
getTime(d) == (d[1] - 1) * 31 + d[2]

\* the products an input collection is drawn from
Catalog ==
  { [id |-> 1, title |-> Some(<<"A", "b">>),
     profiles |-> Some([username |-> <<"b">>, full_name |-> <<"b", " ", "b">>]),
     category |-> "electronics", price |-> 30, created_at |-> <<1, 2>>,
     product_status |-> "published"],
    [id |-> 2, title |-> Some(<<"b">>),
     profiles |-> Some([username |-> <<"A", "a">>, full_name |-> <<"b">>]),
     category |-> "books", price |-> 10, created_at |-> <<2, 1>>,
     product_status |-> "draft"],
    [id |-> 3, title |-> Some(<<"b", "b">>),
     profiles |-> Some([username |-> <<"b">>, full_name |-> <<"B", " ", "A">>]),
     category |-> "electronics", price |-> 20, created_at |-> <<1, 1>>,
     product_status |-> "draft"],
    [id |-> 4, title |-> Some(<<"b", "a">>),
     profiles |-> None,
     category |-> "Electronics", price |-> 10, created_at |-> <<2, 1>>,
     product_status |-> "published"],
    [id |-> 5, title |-> None,
     profiles |-> Some([username |-> <<"b">>, full_name |-> <<"b">>]),
     category |-> "books", price |-> 0, created_at |-> <<1, 31>>,
     product_status |-> "pending"] }

\* the categories the select box offers
LocalCategories == {"all", "electronics", "books"}

\* the sort orders the select box offers
LocalSortOrders == {"none", "price_asc", "price_desc", "newest", "oldest"}

\* sequences of at most n distinct catalog products
CollectionsUpTo(n) ==
  {s \in UNION {[1..k -> Catalog] : k \in 0..n} :
     \A i, j \in 1..Len(s) : i # j => s[i].id # s[j].id}

(***************************************************************************)
(* ModifyProductsList: filter and sort.                                    *)
(***************************************************************************)
\* product.profiles?.username and product.profiles?.full_name
profilesUsername(p) == IF IsNone(p.profiles) THEN None ELSE Some(p.profiles[1].username)
profilesFullName(p) == IF IsNone(p.profiles) THEN None ELSE Some(p.profiles[1].full_name)

\* matchesSearch comparing the product's texts without lower-casing them
matchesSearch_caseSensitive(product, searchQuery) ==
  \/ trim(toLowerCase(searchQuery)) = <<>>
  \/ (~IsNone(product.title) /\ includes(product.title[1], toLowerCase(searchQuery)))
  \/ OptLowerIncludes(profilesUsername(product), toLowerCase(searchQuery))
  \/ OptLowerIncludes(profilesFullName(product), toLowerCase(searchQuery))

\* the search half of the filter callback
matchesSearch(product, searchQuery) ==
  \/ trim(toLowerCase(searchQuery)) = <<>>
  \/ OptLowerIncludes(product.title, toLowerCase(searchQuery))
  \/ OptLowerIncludes(profilesUsername(product), toLowerCase(searchQuery))
  \/ OptLowerIncludes(profilesFullName(product), toLowerCase(searchQuery))

\* the category half of the filter callback
matchesCategory(product, selectedCategory) ==
  selectedCategory = "all" \/ product.category = selectedCategory

\* Array.prototype.filter with the callback of the view: a new array
filterProducts(products, searchQuery, selectedCategory) ==
  SelectSeq(products,
            LAMBDA p : matchesSearch(p, searchQuery) /\ matchesCategory(p, selectedCategory))

\* (x || 0) on a price: 0 is falsy too
PriceOrZero(x) == IF x = 0 THEN 0 ELSE x

\* compareProducts with the operands of the price_desc subtraction exchanged
\* and the draft test answering for the wrong side
compareProducts_swapped(a, b, sortOrder) ==
  IF sortOrder = "price_asc" THEN PriceOrZero(a.price) - PriceOrZero(b.price)
  ELSE IF sortOrder = "price_desc" THEN PriceOrZero(a.price) - PriceOrZero(b.price)
  ELSE IF sortOrder = "newest" THEN getTime(b.created_at) - getTime(a.created_at)
  ELSE IF sortOrder = "oldest" THEN getTime(a.created_at) - getTime(b.created_at)
  ELSE IF a.product_status = "draft" /\ b.product_status # "draft" THEN 1
  ELSE IF a.product_status # "draft" /\ b.product_status = "draft" THEN -1
  ELSE 0

\* the comparator handed to sort
compareProducts(a, b, sortOrder) ==
  IF sortOrder = "price_asc" THEN PriceOrZero(a.price) - PriceOrZero(b.price)
  ELSE IF sortOrder = "price_desc" THEN PriceOrZero(b.price) - PriceOrZero(a.price)
  ELSE IF sortOrder = "newest" THEN getTime(b.created_at) - getTime(a.created_at)
  ELSE IF sortOrder = "oldest" THEN getTime(a.created_at) - getTime(b.created_at)
  ELSE IF a.product_status = "draft" /\ b.product_status # "draft" THEN -1
  ELSE IF a.product_status # "draft" /\ b.product_status = "draft" THEN 1
  ELSE 0

\* x put into the sorted s behind every element that does not come after it
RECURSIVE insertStable(_, _, _)
insertStable(s, x, sortOrder) ==
  IF s = <<>> THEN <<x>>
  ELSE IF compareProducts(s[Len(s)], x, sortOrder) > 0
       THEN Append(insertStable(SubSeq(s, 1, Len(s) - 1), x, sortOrder), s[Len(s)])
       ELSE Append(s, x)

\* Array.prototype.sort: stable, by the comparator
RECURSIVE sortProducts(_, _)
sortProducts(s, sortOrder) ==
  IF s = <<>> THEN <<>>
  ELSE insertStable(sortProducts(SubSeq(s, 1, Len(s) - 1), sortOrder), s[Len(s)], sortOrder)

\* one render of the view: what becomes of the input array, and the output
renderView(products, searchQuery, selectedCategory, sortOrder) ==
  [input |-> products,
   output |-> sortProducts(filterProducts(products, searchQuery, selectedCategory),
                           sortOrder)]

(***************************************************************************)
(* useProducts: props, query key and the remote query fetchProducts builds. *)
(***************************************************************************)
\* the props a caller may pass; an optional prop left out is None
RawProps ==
  [searchQuery : {"", "tv"},
   selectedCategory : {"all", "", "electronics"},
   selectedRegion : {None, Some("all"), Some(""), Some("juba")},
   selectedCountry : {None, Some("all"), Some(""), Some("1"), Some("abc")},
   sortOrder : {"asc", "desc", "newest"},
   showOnlyPublished : {None, Some(TRUE), Some(FALSE)},
   userOnly : {None, Some(TRUE), Some(FALSE)},
   limit : {None} \cup {Some(n) : n \in 1..MaxLimit}]

\* a destructured prop with its default value
OrDefault(o, d) == IF IsNone(o) THEN d ELSE o[1]

\* the destructuring of the props at the head of useProducts
withDefaults(raw) ==
  [searchQuery |-> raw.searchQuery,
   selectedCategory |-> raw.selectedCategory,
   selectedRegion |-> OrDefault(raw.selectedRegion, "all"),
   selectedCountry |-> OrDefault(raw.selectedCountry, "all"),
   sortOrder |-> raw.sortOrder,
   showOnlyPublished |-> OrDefault(raw.showOnlyPublished, FALSE),
   userOnly |-> OrDefault(raw.userOnly, FALSE),
   limit |-> OrDefault(raw.limit, 10)]

\* the identities supabase.auth.getUser() may answer with
Users == {None, Some([id |-> "u1"])}

\* a string is truthy when it is not empty
Truthy(str) == str # ""

\* Number(str) for the country selectors of the model
Number(str) ==
  CASE str = "" -> [kind |-> "number", n |-> 0]
    [] str = "1" -> [kind |-> "number", n |-> 1]
    [] OTHER -> [kind |-> "NaN", n |-> 0]

textValue(str) == [kind |-> "text", text |-> <<str>>]

\* the template literal `%${searchQuery}%`
likePattern(str) == [kind |-> "text", text |-> <<"%", str, "%">>]

\* the query with one more filter / one more ordering
withFilter(query, op, column, value) ==
  [query EXCEPT !.filters = @ \cup {[op |-> op, column |-> column, value |-> value]}]

withOrder(query, column, ascending) ==
  [query EXCEPT !.order = Append(@, [column |-> column, ascending |-> ascending])]

\* the range with its end one row too far
pageRange_endTooFar(pageParam, limit) ==
  LET startRange == pageParam * limit
      endRange == startRange + limit
  IN <<startRange, endRange>>

\* startRange and endRange of fetchProducts: the inclusive row range
pageRange(pageParam, limit) ==
  LET startRange == pageParam * limit
      endRange == startRange + (limit - 1)
  IN <<startRange, endRange>>

\* fetchProducts matching the category as a substring pattern
fetchProductsQuery_categoryLike(p, usr, pageParam) ==
  LET q0 == [from |-> "products", range |-> pageRange(pageParam, p.limit),
             filters |-> {}, order |-> <<>>]
      q1 == IF Truthy(p.searchQuery)
            THEN withFilter(q0, "ilike", "title", likePattern(p.searchQuery)) ELSE q0
      q2 == IF p.selectedCategory # "all"
            THEN withFilter(q1, "ilike", "category", likePattern(p.selectedCategory)) ELSE q1
      q3 == IF Truthy(p.selectedRegion) /\ p.selectedRegion # "all"
            THEN withFilter(q2, "eq", "county", textValue(p.selectedRegion)) ELSE q2
      q4 == IF Truthy(p.selectedCountry) /\ p.selectedCountry # "all"
            THEN withFilter(q3, "eq", "country_id", Number(p.selectedCountry)) ELSE q3
      q5 == IF p.showOnlyPublished
            THEN withFilter(q4, "eq", "product_status", textValue("published")) ELSE q4
      q6 == IF p.userOnly /\ ~IsNone(usr)
            THEN withFilter(q5, "eq", "user_id", textValue(usr[1].id)) ELSE q5
  IN IF p.sortOrder = "asc" THEN withOrder(q6, "price", TRUE)
     ELSE IF p.sortOrder = "desc" THEN withOrder(q6, "price", FALSE)
     ELSE withOrder(q6, "created_at", FALSE)

\* fetchProducts up to the await of the query: the query it sends
fetchProductsQuery(p, usr, pageParam) ==
  LET q0 == [from |-> "products", range |-> pageRange(pageParam, p.limit),
             filters |-> {}, order |-> <<>>]
      q1 == IF Truthy(p.searchQuery)
            THEN withFilter(q0, "ilike", "title", likePattern(p.searchQuery)) ELSE q0
      q2 == IF p.selectedCategory # "all"
            THEN withFilter(q1, "eq", "category", textValue(p.selectedCategory)) ELSE q1
      q3 == IF Truthy(p.selectedRegion) /\ p.selectedRegion # "all"
            THEN withFilter(q2, "eq", "county", textValue(p.selectedRegion)) ELSE q2
      q4 == IF Truthy(p.selectedCountry) /\ p.selectedCountry # "all"
            THEN withFilter(q3, "eq", "country_id", Number(p.selectedCountry)) ELSE q3
      q5 == IF p.showOnlyPublished
            THEN withFilter(q4, "eq", "product_status", textValue("published")) ELSE q4
      q6 == IF p.userOnly /\ ~IsNone(usr)
            THEN withFilter(q5, "eq", "user_id", textValue(usr[1].id)) ELSE q5
  IN IF p.sortOrder = "asc" THEN withOrder(q6, "price", TRUE)
     ELSE IF p.sortOrder = "desc" THEN withOrder(q6, "price", FALSE)
     ELSE withOrder(q6, "created_at", FALSE)

(***************************************************************************)
(* useProducts: the infinite query and prefetchNextPage.                   *)
(* The query client is the @tanstack/react-query (v5) client the hook      *)
(* imports: one query per query key, holding the loaded pages and at most  *)
(* one running fetch.                                                      *)
(***************************************************************************)
\* the queryKey of the hook
queryKey(p) ==
  <<"products", p.searchQuery, p.selectedCategory, p.selectedRegion,
    p.selectedCountry, p.sortOrder, p.showOnlyPublished, p.userOnly>>

\* getNextPageParam with <= where the hook has <
getNextPageParam_lessOrEqual(lastPage, allPages, limit) ==
  IF Len(lastPage.rows) <= limit THEN None ELSE Some(Len(allPages))

\* the getNextPageParam option: None is undefined
getNextPageParam(lastPage, allPages, limit) ==
  IF Len(lastPage.rows) < limit THEN None ELSE Some(Len(allPages))

\* the options handed to useInfiniteQuery
infiniteQueryOptions ==
  [initialPageParam |-> 0, retry |-> None, hasGetNextPageParam |-> TRUE]

\* the options handed to prefetchInfiniteQuery
prefetchOptions ==
  [initialPageParam |-> 0, retry |-> None, staleTime |-> None,
   hasGetNextPageParam |-> FALSE]

\* the client's defaults for options left out: retry 3, staleTime 0
retryOf(options) == OrDefault(options.retry, 3)
staleTimeOf(options) == OrDefault(options.staleTime, 0)

\* a query the client has just built
NewQuery ==
  [pages |-> <<>>, status |-> "pending", fetchStatus |-> "idle",
   fetchMore |-> "none", kind |-> "none", acc |-> <<>>, remaining |-> 0,
   failureCount |-> 0, closure |-> None, options |-> infiniteQueryOptions,
   req |-> 0]

\* the query with no fetch running
Settled(q, pages, status) ==
  [NewQuery EXCEPT !.pages = pages, !.status = status]

\* result.hasNextPage, result.isFetching, result.isFetchingNextPage
hasNextPage(q, limit) ==
  /\ Len(q.pages) > 0
  /\ ~IsNone(getNextPageParam(q.pages[Len(q.pages)], q.pages, limit))

isFetching(q) == q.fetchStatus = "fetching"

isFetchingNextPage(q) == isFetching(q) /\ q.fetchMore = "forward"

\* the guard of prefetchNextPage without its has-next-page test
prefetchGuard_noHasNextPage(q, limit) ==
  /\ Len(q.pages) > 0
  /\ ~isFetchingNextPage(q)

\* the guard of prefetchNextPage: result.data is set once a page is loaded
prefetchGuard(q, limit) ==
  /\ Len(q.pages) > 0
  /\ ~isFetchingNextPage(q)
  /\ hasNextPage(q, limit)

\* fetchProducts swallowing the error and returning no rows
fetchProductsResult_swallow(response) ==
  IF response.error THEN [thrown |-> FALSE, data |-> <<>>]
  ELSE [thrown |-> FALSE, data |-> response.data]

\* fetchProducts after the await of the query: throw, or return the rows
fetchProductsResult(response) ==
  IF response.error THEN [thrown |-> TRUE, data |-> <<>>]
  ELSE [thrown |-> FALSE, data |-> response.data]

VARIABLES
  \* useProducts
  storeRows,                  \* rows the remote store holds for a query
  cache,                      \* the query cache: query key -> query
  remote,                     \* the queries the remote store has yet to answer
  event,                      \* the last operation and the requests it sent
  ops,                        \* calls, prop changes and remote errors so far
  \* fetchProducts called on its own
  rawProps,                   \* the props of the hook, as passed
  authUser,                   \* the identity getUser answers with
  built,                      \* the query the last call sent, if any
  \* ModifyProductsList
  products,                   \* the products prop
  lvSearchQuery,              \* useState searchQuery
  lvSelectedCategory,         \* useState selectedCategory
  lvSortOrder,                \* useState sortOrder
  filteredAndSortedProducts   \* the array the last render displayed

localVars == <<products, lvSearchQuery, lvSelectedCategory, lvSortOrder,
               filteredAndSortedProducts>>

queryVars == <<rawProps, authUser, built>>

hookVars == <<storeRows, cache, remote, event, ops>>

vars == <<storeRows, cache, remote, event, ops,
          rawProps, authUser, built,
          products, lvSearchQuery, lvSelectedCategory, lvSortOrder,
          filteredAndSortedProducts>>

\* the view is not mounted
LocalIdle ==
  /\ products = <<>>
  /\ lvSearchQuery = <<>>
  /\ lvSelectedCategory = "all"
  /\ lvSortOrder = "none"
  /\ filteredAndSortedProducts = <<>>

\* before the first render of the hook
HookStart ==
  /\ cache = <<>>
  /\ remote = {}
  /\ event = [op |-> "init", issued |-> {}, answered |-> {}]
  /\ ops = 0

\* the hook is not mounted
HookIdle ==
  /\ storeRows = 0
  /\ HookStart

\* fetchProducts has not been called on its own
QueryIdle ==
  /\ rawProps = [searchQuery |-> "", selectedCategory |-> "all",
                 selectedRegion |-> None, selectedCountry |-> None,
                 sortOrder |-> "newest", showOnlyPublished |-> None,
                 userOnly |-> None, limit |-> None]
  /\ authUser = None
  /\ built = None

\* a render with the given props and state
Render(prods, sq, cat, so) ==
  LET r == renderView(prods, sq, cat, so)
  IN /\ products' = r.input
     /\ lvSearchQuery' = sq
     /\ lvSelectedCategory' = cat
     /\ lvSortOrder' = so
     /\ filteredAndSortedProducts' = r.output
     /\ UNCHANGED queryVars
     /\ UNCHANGED hookVars

\* first render: the useState initial values
InitLocal ==
  /\ products \in CollectionsUpTo(MaxProducts)
  /\ lvSearchQuery = <<>>
  /\ lvSelectedCategory = "all"
  /\ lvSortOrder = "none"
  /\ filteredAndSortedProducts =
       renderView(products, <<>>, "all", "none").output
  /\ QueryIdle
  /\ HookIdle

\* onChange of the search input
SetSearchQuery ==
  \E s \in StringsUpTo(MaxSearchLen) :
    /\ s # lvSearchQuery
    /\ Render(products, s, lvSelectedCategory, lvSortOrder)

\* onValueChange of the category select
SetSelectedCategory ==
  \E c \in LocalCategories :
    /\ c # lvSelectedCategory
    /\ Render(products, lvSearchQuery, c, lvSortOrder)

\* onValueChange of the sort select
SetSortOrder ==
  \E o \in LocalSortOrders :
    /\ o # lvSortOrder
    /\ Render(products, lvSearchQuery, lvSelectedCategory, o)

\* the parent hands in the collection with the products of a further page
ReceiveMoreProducts ==
  \E p \in Catalog :
    /\ Len(products) < MaxProducts
    /\ \A i \in 1..Len(products) : products[i].id # p.id
    /\ Render(Append(products, p), lvSearchQuery, lvSelectedCategory, lvSortOrder)

\* after onDelete the parent hands in the collection without that product
ReceiveWithoutProduct ==
  \E i \in 1..Len(products) :
    Render(SubSeq(products, 1, i - 1) \o SubSeq(products, i + 1, Len(products)),
           lvSearchQuery, lvSelectedCategory, lvSortOrder)

NextLocal ==
  \/ SetSearchQuery
  \/ SetSelectedCategory
  \/ SetSortOrder
  \/ ReceiveMoreProducts
  \/ ReceiveWithoutProduct

SpecLocal == InitLocal /\ [][NextLocal]_vars

(***************************************************************************)
(* The hook: mount, prop changes, the operations it returns, and the       *)
(* answers of the remote store.                                            *)
(***************************************************************************)
\* the props of the current render
props == withDefaults(rawProps)

\* the query the hook observes
current == cache[queryKey(props)]

Mounted == queryKey(props) \in DOMAIN cache

Max(a, b) == IF a > b THEN a ELSE b

\* an id no outstanding request has
NewId == CHOOSE i \in 1..(Cardinality(remote) + 1) :
           /\ \A r \in remote : r.id # i
           /\ \A j \in 1..(i - 1) : \E r \in remote : r.id = j

\* a call of fetchProducts({ pageParam }) of the render with props p,
\* up to the await of the query
fetchProductsCall(id, p, pageParam) ==
  [id |-> id, key |-> queryKey(p), param |-> pageParam, under |-> p,
   query |-> fetchProductsQuery(p, authUser, pageParam)]

\* the request is awaited by the fetch its query runs
Live(r) == r.key \in DOMAIN cache /\ cache[r.key].req = r.id

\* the page parameter a run of the fetch function starts with
firstParam(q, kind, options) ==
  IF kind = "next" THEN Len(q.pages)
  ELSE IF Len(q.pages) > 0 THEN q.pages[1].param
  ELSE options.initialPageParam

\* Query.fetch: a fetch of q starts. fetchMore "forward" with pages loaded
\* fetches the next page after them, and resolves at once with the old
\* pages if there is none; otherwise the first page and then the other
\* loaded pages are fetched again. p are the props of the render whose
\* fetchProducts is the query function.
startFetch(q, fetchMore, p, options, id) ==
  LET forward == fetchMore = "forward" /\ Len(q.pages) > 0
      kind == IF forward THEN "next" ELSE "all"
      np == IF forward
            THEN getNextPageParam(q.pages[Len(q.pages)], q.pages, p.limit)
            ELSE None
  IN IF forward /\ IsNone(np)
     THEN [q |-> Settled(q, q.pages, "success"), reqs |-> {}]
     ELSE [q |-> [q EXCEPT !.status = IF Len(q.pages) = 0 THEN "pending" ELSE @,
                           !.fetchStatus = "fetching",
                           !.fetchMore = fetchMore,
                           !.kind = kind,
                           !.acc = IF forward THEN q.pages ELSE <<>>,
                           !.remaining = IF forward THEN 0 ELSE Max(Len(q.pages), 1),
                           !.failureCount = 0,
                           !.closure = Some(p),
                           !.options = options,
                           !.req = id],
           reqs |-> {fetchProductsCall(id, p, firstParam(q, kind, options))}]

\* the fetch function threw: the retryer runs it again from its start
\* until the retries are used up, then the query is in error
fetchFailed(q, id) ==
  IF q.failureCount < retryOf(q.options)
  THEN [q |-> [q EXCEPT !.failureCount = @ + 1,
                        !.acc = IF q.kind = "next" THEN q.pages ELSE <<>>,
                        !.req = id],
        reqs |-> {fetchProductsCall(id, q.closure[1],
                                    firstParam(q, q.kind, q.options))}]
  ELSE [q |-> Settled(q, q.pages, "error"), reqs |-> {}]

\* the running fetch of q got a page from its query function
pageFetched(q, page, id) ==
  LET acc == Append(q.acc, page)
      np == getNextPageParam(page, acc, q.closure[1].limit)
  IN IF q.kind = "next" \/ Len(acc) >= q.remaining
     THEN [q |-> Settled(q, acc, "success"), reqs |-> {}]
     ELSE IF ~q.options.hasGetNextPageParam
     THEN fetchFailed(q, id)    \* options.getNextPageParam is not a function
     ELSE IF IsNone(np)
     THEN [q |-> Settled(q, acc, "success"), reqs |-> {}]
     ELSE [q |-> [q EXCEPT !.acc = acc, !.req = id],
           reqs |-> {fetchProductsCall(id, q.closure[1], np[1])}]

\* the rows the store holds in the inclusive range, in query order
rowsInRange(from, to) ==
  LET last == IF to < storeRows - 1 THEN to ELSE storeRows - 1
  IN [i \in 1..Max(last - from + 1, 0) |-> from + i - 1]

\* the cache with query q under key k
Put(k, q) == [x \in DOMAIN cache \cup {k} |-> IF x = k THEN q ELSE cache[x]]

\* the props a caller changes, and the values it chooses from
PropNames ==
  {"searchQuery", "selectedCategory", "selectedRegion", "selectedCountry",
   "sortOrder", "showOnlyPublished", "userOnly", "limit"}

PropValues(f) ==
  CASE f = "searchQuery" -> {"", "tv"}
    [] f = "selectedCategory" -> {"all", "electronics"}
    [] f = "selectedRegion" -> {None, Some("juba")}
    [] f = "selectedCountry" -> {None, Some("1")}
    [] f = "sortOrder" -> {"asc", "newest"}
    [] f = "showOnlyPublished" -> {None, Some(TRUE)}
    [] f = "userOnly" -> {None, Some(TRUE)}
    [] f = "limit" -> {Some(n) : n \in 1..MaxLimit}

\* the props of the first render
FirstProps ==
  {[searchQuery |-> "", selectedCategory |-> "all", selectedRegion |-> None,
    selectedCountry |-> None, sortOrder |-> "newest",
    showOnlyPublished |-> Some(TRUE), userOnly |-> None, limit |-> Some(n)] :
     n \in 1..MaxLimit}

Init ==
  /\ rawProps \in FirstProps
  /\ authUser = Some([id |-> "u1"])
  /\ built = None
  /\ storeRows \in 0..MaxRows
  /\ HookStart
  /\ LocalIdle

\* what every step of the hook leaves alone
HookFrame == UNCHANGED <<storeRows, authUser, built>> /\ UNCHANGED localVars

\* the outcome r of a started fetch is stored under key k
Started(op, k, r) ==
  /\ cache' = Put(k, r.q)
  /\ remote' = remote \cup r.reqs
  /\ event' = [op |-> op, issued |-> r.reqs, answered |-> {}]

\* nothing but the event changes
Nothing(op) ==
  /\ UNCHANGED <<cache, remote>>
  /\ event' = [op |-> op, issued |-> {}, answered |-> {}]

\* the first render: the observer subscribes and fetches the first page
Mount ==
  /\ ~Mounted
  /\ Started("mount", queryKey(props),
             startFetch(NewQuery, "none", props, infiniteQueryOptions, NewId))
  /\ UNCHANGED <<rawProps, ops>>
  /\ HookFrame

\* a render with one prop changed: the observer moves to the query of the
\* new key, and fetches if that query has no data and no fetch running
SetProp ==
  \E f \in PropNames : \E v \in PropValues(f) :
    LET raw == [rawProps EXCEPT ![f] = v]
        p == withDefaults(raw)
        k == queryKey(p)
        q == IF k \in DOMAIN cache THEN cache[k] ELSE NewQuery
    IN /\ Mounted
       /\ ops < MaxOps
       /\ v # rawProps[f]
       /\ rawProps' = raw
       /\ ops' = ops + 1
       /\ IF k # queryKey(props) /\ Len(q.pages) = 0 /\ ~isFetching(q)
          THEN Started("setProp", k,
                       startFetch(q, "none", p, infiniteQueryOptions, NewId))
          ELSE Nothing("setProp")
       /\ HookFrame

\* observer.fetch with cancelRefetch (the default): a running fetch is
\* dropped unless the query has no data yet, and a new fetch starts
observerFetch(op, fetchMore) ==
  IF isFetching(current) /\ Len(current.pages) = 0
  THEN Nothing(op)
  ELSE Started(op, queryKey(props),
               startFetch(current, fetchMore, props, infiniteQueryOptions, NewId))

\* result.fetchNextPage()
DoFetchNextPage ==
  /\ Mounted
  /\ observerFetch("fetchNextPage", "forward")
  /\ UNCHANGED rawProps
  /\ HookFrame

FetchNextPage ==
  /\ ops < MaxOps
  /\ ops' = ops + 1
  /\ DoFetchNextPage

\* result.refetch()
Refetch ==
  /\ Mounted
  /\ ops < MaxOps
  /\ ops' = ops + 1
  /\ observerFetch("refetch", "none")
  /\ UNCHANGED rawProps
  /\ HookFrame

\* prefetchNextPage(): behind its guard, prefetchInfiniteQuery with the
\* query key, fetchProducts and initialPageParam 0. The client fetches
\* when the data is stale by the staleTime of these options, and a fetch
\* already running for the key is joined, not started again.
PrefetchNextPage ==
  /\ Mounted
  /\ ops < MaxOps
  /\ ops' = ops + 1
  /\ IF /\ prefetchGuard(current, props.limit)
        /\ staleTimeOf(prefetchOptions) = 0
        /\ ~isFetching(current)
     THEN Started("prefetchNextPage", queryKey(props),
                  startFetch(current, "none", props, prefetchOptions, NewId))
     ELSE Nothing("prefetchNextPage")
  /\ UNCHANGED rawProps
  /\ HookFrame

\* the remote store answers request r; an answer no fetch waits for any
\* more is dropped
Answered(op, r, response) ==
  LET q == cache[r.key]
      result == fetchProductsResult(response)
      page == [rows |-> result.data, param |-> r.param, under |-> r.under]
      next == IF result.thrown THEN fetchFailed(q, r.id)
              ELSE pageFetched(q, page, r.id)
  IN /\ IF Live(r)
        THEN /\ cache' = Put(r.key, next.q)
             /\ remote' = (remote \ {r}) \cup next.reqs
             /\ event' = [op |-> op, issued |-> next.reqs, answered |-> {r}]
        ELSE /\ cache' = cache
             /\ remote' = remote \ {r}
             /\ event' = [op |-> op, issued |-> {}, answered |-> {r}]
     /\ UNCHANGED rawProps
     /\ HookFrame

\* the store answers with rows
RemoteRespond ==
  \E r \in remote :
    /\ Answered("respond", r,
                [error |-> FALSE,
                 data |-> rowsInRange(r.query.range[1], r.query.range[2])])
    /\ UNCHANGED ops

\* the store answers with an error
RemoteError ==
  \E r \in remote :
    /\ ops < MaxOps
    /\ ops' = ops + 1
    /\ Answered("error", r, [error |-> TRUE, data |-> <<>>])

Next ==
  \/ Mount
  \/ SetProp
  \/ FetchNextPage
  \/ Refetch
  \/ PrefetchNextPage
  \/ RemoteRespond
  \/ RemoteError

Spec == Init /\ [][Next]_vars

(***************************************************************************)
(* Paging through one query: the props stay as they are, the store         *)
(* answers every request with rows, and the next page is fetched whenever  *)
(* the last fetch has ended and hasNextPage is true.                       *)
(***************************************************************************)
\* the props of a run of paging
PagingProps ==
  {raw \in RawProps :
     /\ \A f \in PropNames : raw[f] \in PropValues(f)}

InitPaging ==
  /\ rawProps \in PagingProps
  /\ authUser \in Users
  /\ built = None
  /\ storeRows \in 0..MaxRows
  /\ HookStart
  /\ LocalIdle

PagingFetchNext ==
  /\ Mounted
  /\ ~isFetching(current)
  /\ hasNextPage(current, props.limit)
  /\ DoFetchNextPage
  /\ UNCHANGED ops

NextPaging ==
  \/ Mount
  \/ PagingFetchNext
  \/ RemoteRespond

SpecPaging == InitPaging /\ [][NextPaging]_vars

(***************************************************************************)
(* fetchProducts as a function of the props, the identity and the page.    *)
(***************************************************************************)
InitQuery ==
  /\ rawProps \in RawProps
  /\ authUser \in Users
  /\ built = None
  /\ LocalIdle
  /\ HookIdle

\* one call of fetchProducts({ pageParam })
CallFetchProducts ==
  \E pageParam \in 0..MaxPage :
    /\ built' = Some(fetchProductsQuery(withDefaults(rawProps), authUser, pageParam))
    /\ UNCHANGED <<rawProps, authUser>>
    /\ UNCHANGED localVars
    /\ UNCHANGED hookVars

NextQuery == CallFetchProducts

SpecQuery == InitQuery /\ [][NextQuery]_vars

(***************************************************************************)
(* Properties of the local view.                                           *)
(***************************************************************************)
\* the elements of a sequence
Range(s) == {s[i] : i \in 1..Len(s)}

\* how often x occurs in s
Count(s, x) == Cardinality({i \in 1..Len(s) : s[i] = x})

\* two texts are equal up to the case of their letters
EqualIgnoringCase(x, y) ==
  /\ Len(x) = Len(y)
  /\ \A i \in 1..Len(x) : LowerChar(x[i]) = LowerChar(y[i])

\* t occurs in the optional text a as a substring, case-insensitively
OccursIgnoringCase(a, t) ==
  /\ ~IsNone(a)
  /\ \E i \in 1..(Len(a[1]) + 1) :
       /\ i + Len(t) - 1 <= Len(a[1])
       /\ EqualIgnoringCase(SubSeq(a[1], i, i + Len(t) - 1), t)

\* the search text occurs in the title, the owner's username or full name
OccursInProduct(p, t) ==
  \/ OccursIgnoringCase(p.title, t)
  \/ (~IsNone(p.profiles) /\ OccursIgnoringCase(Some(p.profiles[1].username), t))
  \/ (~IsNone(p.profiles) /\ OccursIgnoringCase(Some(p.profiles[1].full_name), t))

\* the search text consists of white space only (or of nothing)
IsBlank(t) == \A i \in 1..Len(t) : t[i] = " "

CategoryPasses(p) ==
  lvSelectedCategory = "all" \/ p.category = lvSelectedCategory

\* a change of the view's own state leaves the input collection as it was
InputKept ==
  [][<<lvSearchQuery, lvSelectedCategory, lvSortOrder>>' #
       <<lvSearchQuery, lvSelectedCategory, lvSortOrder>>
     => products' = products]_vars

\* C8 as stated: a product is shown iff (the search text is empty or occurs
\* case-insensitively in its title, owner username or owner full name) and
\* (the category is "all" or equals the product's category); with empty
\* search text and category "all" every input product is shown.
C8_FilterAsStated ==
  /\ \A p \in Range(products) :
       p \in Range(filteredAndSortedProducts)
         <=> /\ (lvSearchQuery = <<>> \/ OccursInProduct(p, lvSearchQuery))
             /\ CategoryPasses(p)
  /\ Range(filteredAndSortedProducts) \subseteq Range(products)

\* C8, with "empty" read as "empty once white space is trimmed": a product
\* is shown iff (the search text is blank or occurs case-insensitively in
\* its title, owner username or owner full name) and (the category is
\* "all" or equals its category); every shown product is an input
\* product; with empty search text and category "all" every input product
\* is shown; and the input collection is not changed by the view.
C8_FilterPredicate ==
  /\ [](/\ \A p \in Range(products) :
            p \in Range(filteredAndSortedProducts)
              <=> /\ (IsBlank(lvSearchQuery) \/ OccursInProduct(p, lvSearchQuery))
                  /\ CategoryPasses(p)
        /\ Range(filteredAndSortedProducts) \subseteq Range(products)
        /\ (lvSearchQuery = <<>> /\ lvSelectedCategory = "all"
              => Range(filteredAndSortedProducts) = Range(products)))
  /\ InputKept

\* the search text is one blank and a product without any blank is shown
C8_Witness ==
  /\ lvSearchQuery = <<" ">>
  /\ lvSelectedCategory = "books"
  /\ \E p \in Range(filteredAndSortedProducts) : ~OccursInProduct(p, lvSearchQuery)
  /\ \E p \in Range(products) : p \notin Range(filteredAndSortedProducts)

\* d1 is an earlier creation time than d2
Earlier(d1, d2) == d1[1] < d2[1] \/ (d1[1] = d2[1] /\ d1[2] < d2[2])

\* every pair of the output, in output order, satisfies R
Ordered(R(_, _)) ==
  \A i, j \in 1..Len(filteredAndSortedProducts) :
    i < j => R(filteredAndSortedProducts[i], filteredAndSortedProducts[j])

\* C9: the output is a permutation of the filtered products, in the order
\* of sortOrder: price non-decreasing (price_asc), price non-increasing
\* (price_desc), creation time non-increasing (newest), creation time
\* non-decreasing (oldest), otherwise every draft before every non-draft.
C9_SortOrder ==
  /\ \A p \in Catalog :
       Count(filteredAndSortedProducts, p) =
         Count(filterProducts(products, lvSearchQuery, lvSelectedCategory), p)
  /\ Len(filteredAndSortedProducts) =
       Len(filterProducts(products, lvSearchQuery, lvSelectedCategory))
  /\ CASE lvSortOrder = "price_asc" -> Ordered(LAMBDA a, b : a.price <= b.price)
       [] lvSortOrder = "price_desc" -> Ordered(LAMBDA a, b : a.price >= b.price)
       [] lvSortOrder = "newest" ->
            Ordered(LAMBDA a, b : ~Earlier(a.created_at, b.created_at))
       [] lvSortOrder = "oldest" ->
            Ordered(LAMBDA a, b : ~Earlier(b.created_at, a.created_at))
       [] OTHER ->
            Ordered(LAMBDA a, b :
                      ~(a.product_status # "draft" /\ b.product_status = "draft"))

\* three products are shown in an order that is not the input's
C9_Witness ==
  /\ Len(filteredAndSortedProducts) = 3
  /\ filteredAndSortedProducts #
       filterProducts(products, lvSearchQuery, lvSelectedCategory)
  /\ lvSortOrder = "price_desc"

(***************************************************************************)
(* Properties of the query fetchProducts builds.                           *)
(***************************************************************************)
\* the query of the last call has a filter with this operator on this column
HasFilter(op, column) ==
  \E f \in built[1].filters : f.op = op /\ f.column = column

\* the filters of the last call on a column
FiltersOn(column) == {f \in built[1].filters : f.column = column}

\* an optional prop is set when it was passed and is not the empty string
IsSet(o) == ~IsNone(o) /\ o[1] # ""

\* C7: the filters of the query are exactly: title substring match iff
\* searchQuery is non-empty; category equality iff selectedCategory is not
\* "all"; county equality iff selectedRegion is set and not "all";
\* country_id equality iff selectedCountry is set and not "all";
\* product_status = "published" iff showOnlyPublished; user_id = identity
\* iff userOnly and an identity exists; and exactly one ordering: price
\* ascending for "asc", price descending for "desc", else created_at
\* descending.
C7_FiltersAndOrder ==
  ~IsNone(built) =>
    /\ \A f \in built[1].filters :
         f.column \in {"title", "category", "county", "country_id",
                       "product_status", "user_id"}
    /\ \A col \in {"title", "category", "county", "country_id",
                    "product_status", "user_id"} : Cardinality(FiltersOn(col)) <= 1
    /\ \A f \in built[1].filters : f.op = (IF f.column = "title" THEN "ilike" ELSE "eq")
    /\ HasFilter("ilike", "title") <=> rawProps.searchQuery # ""
    /\ \A f \in FiltersOn("title") : f.value.text = <<"%", rawProps.searchQuery, "%">>
    /\ HasFilter("eq", "category") <=> rawProps.selectedCategory # "all"
    /\ \A f \in FiltersOn("category") : f.value.text = <<rawProps.selectedCategory>>
    /\ HasFilter("eq", "county")
         <=> (IsSet(rawProps.selectedRegion) /\ rawProps.selectedRegion # Some("all"))
    /\ \A f \in FiltersOn("county") : Some(f.value.text[1]) = rawProps.selectedRegion
    /\ HasFilter("eq", "country_id")
         <=> (IsSet(rawProps.selectedCountry) /\ rawProps.selectedCountry # Some("all"))
    /\ HasFilter("eq", "product_status") <=> rawProps.showOnlyPublished = Some(TRUE)
    /\ \A f \in FiltersOn("product_status") : f.value.text = <<"published">>
    /\ HasFilter("eq", "user_id")
         <=> (rawProps.userOnly = Some(TRUE) /\ ~IsNone(authUser))
    /\ \A f \in FiltersOn("user_id") : f.value.text = <<authUser[1].id>>
    /\ Len(built[1].order) = 1
    /\ built[1].order[1] =
         (IF rawProps.sortOrder = "asc" THEN [column |-> "price", ascending |-> TRUE]
          ELSE IF rawProps.sortOrder = "desc" THEN [column |-> "price", ascending |-> FALSE]
          ELSE [column |-> "created_at", ascending |-> FALSE])

\* a call with userOnly and no identity, a category and a search text
C7_Witness ==
  /\ ~IsNone(built)
  /\ rawProps.userOnly = Some(TRUE) /\ IsNone(authUser)
  /\ rawProps.selectedCategory = "electronics"
  /\ rawProps.searchQuery = "tv"
  /\ rawProps.selectedCountry = Some("1")
  /\ Cardinality(built[1].filters) = 3

(***************************************************************************)
(* Properties of the paginated fetcher.                                    *)
(***************************************************************************)
\* the requests the running fetch of the observed query waits for
LiveRequests == {r \in remote : r.key = queryKey(props) /\ Live(r)}

\* C1 as stated: after a change of any one prop, the page size limit
\* included, the hook shows no page that was fetched under the props
\* before the change: the query it observes is empty or holds pages of
\* exactly the new props.
C1_NoPageOfAnotherTuple ==
  (Mounted /\ event.op = "setProp") =>
    \A i \in 1..Len(current.pages) : current.pages[i].under = props

\* the step is a call of prefetchNextPage
IsPrefetchCall == event'.op = "prefetchNextPage" /\ ops' = ops + 1

\* C2 as stated: called with n pages loaded, no fetch running and
\* hasNextPage true, prefetchNextPage requests page n, rows
\* [n*limit, n*limit+limit-1], from the remote store; and the page a
\* prefetch brings is added behind the loaded pages, which stay.
C2_PrefetchRequestsPageN ==
  [][/\ (/\ IsPrefetchCall
         /\ Len(current.pages) > 0
         /\ ~isFetching(current)
         /\ hasNextPage(current, props.limit))
        => \E r \in event'.issued :
             /\ r.param = Len(current.pages)
             /\ r.query.range =
                  <<Len(current.pages) * props.limit,
                    Len(current.pages) * props.limit + props.limit - 1>>
     /\ \A r \in event'.answered :
          (/\ event'.op = "respond"
           /\ Live(r)
           /\ cache[r.key].options = prefetchOptions
           /\ ~isFetching(cache'[r.key]))
            => /\ Len(cache'[r.key].pages) = Len(cache[r.key].pages) + 1
               /\ SubSeq(cache'[r.key].pages, 1, Len(cache[r.key].pages)) =
                    cache[r.key].pages]_vars

\* C3: prefetchNextPage sends nothing to the remote store and leaves the
\* cache as it is when no page is loaded yet, when a fetch of the query is
\* running (first load, refetch or next page), and when hasNextPage is
\* false.
C3_PrefetchNoOp ==
  [][(/\ IsPrefetchCall
      /\ \/ Len(current.pages) = 0
         \/ isFetching(current)
         \/ ~hasNextPage(current, props.limit))
     => /\ remote' = remote
        /\ cache' = cache
        /\ event'.issued = {}]_vars

\* prefetchNextPage was called while a refetch of loaded pages was running
\* and a next page existed: its guard held, and nothing was sent
C3_Witness ==
  /\ event.op = "prefetchNextPage"
  /\ event.issued = {}
  /\ Mounted
  /\ Len(current.pages) > 0
  /\ isFetching(current)
  /\ ~isFetchingNextPage(current)
  /\ hasNextPage(current, props.limit)
  /\ LiveRequests # {}

\* C4: with a page loaded, hasNextPage is false exactly when the last
\* loaded page has fewer than limit rows; when it is true the next page
\* index is the number of loaded pages, and that is the page a running
\* fetchNextPage has asked the remote store for.
C4_HasNextPage ==
  (Mounted /\ Len(current.pages) > 0) =>
    LET last == current.pages[Len(current.pages)]
    IN /\ hasNextPage(current, props.limit) <=> ~(Len(last.rows) < props.limit)
       /\ hasNextPage(current, props.limit)
            => getNextPageParam(last, current.pages, props.limit)
                 = Some(Len(current.pages))
       /\ isFetchingNextPage(current)
            => \A r \in LiveRequests : r.param = Len(current.pages)

\* two pages are loaded, a third is being fetched by fetchNextPage
C4_Witness ==
  /\ Mounted
  /\ Len(current.pages) = 2
  /\ hasNextPage(current, props.limit)
  /\ isFetchingNextPage(current)
  /\ \E r \in LiveRequests : r.param = 2

\* C5 as stated: when the remote store answers a page fetch with an
\* error, the fetch ends in error, no page is added, and nothing is sent
\* to the remote store again unless the caller asks.
C5_ErrorEndsFetchNoRetry ==
  [][\A r \in event'.answered :
       (event'.op = "error" /\ Live(r))
         => /\ cache'[r.key].status = "error"
            /\ ~isFetching(cache'[r.key])
            /\ cache'[r.key].pages = cache[r.key].pages
            /\ event'.issued = {}]_vars

\* C6 as stated: the remote store never has two requests to answer for the
\* same parameter tuple and page index.
C6_OneRequestPerKey ==
  \A r1, r2 \in remote :
    (r1.under = r2.under /\ r1.param = r2.param) => r1 = r2

\* floor(a / b) and the rows from..to-1
RowsFromTo(from, to) == [i \in 1..Max(to - from, 0) |-> from + i - 1]

Min(a, b) == IF a < b THEN a ELSE b

RECURSIVE Concat(_)
Concat(pages) ==
  IF pages = <<>> THEN <<>>
  ELSE Concat(SubSeq(pages, 1, Len(pages) - 1)) \o pages[Len(pages)].rows

\* C10: paging through a store of N rows with page size limit, page k asks
\* for rows [k*limit, k*limit+limit-1]; the loaded pages in a row are the
\* store's rows in order, none missing and none twice; hasNextPage is
\* false after exactly floor(N/limit)+1 fetches; an empty page is fetched
\* only as the last one, and only when N is a multiple of limit.
C10_Paging ==
  Mounted =>
    LET q == current
        L == props.limit
        N == storeRows
        n == Len(q.pages)
    IN /\ \A r \in remote :
            /\ r.query.range = <<r.param * L, r.param * L + L - 1>>
            /\ r.param = n
       /\ \A i \in 1..n :
            /\ q.pages[i].param = i - 1
            /\ q.pages[i].rows = RowsFromTo((i - 1) * L, Min(i * L, N))
       /\ Concat(q.pages) = RowsFromTo(0, Min(n * L, N))
       /\ n <= (N \div L) + 1
       /\ n > 0 => (~hasNextPage(q, L) <=> n = (N \div L) + 1)
       /\ (n > 0 /\ ~hasNextPage(q, L)) => Concat(q.pages) = RowsFromTo(0, N)
       /\ \A i \in 1..n :
            q.pages[i].rows = <<>> <=> (i = (N \div L) + 1 /\ N % L = 0)

\* paging has ended on the empty page behind two full pages
C10_Witness ==
  /\ Mounted
  /\ storeRows = 2 /\ props.limit = 1
  /\ Len(current.pages) = 3
  /\ current.pages[3].rows = <<>>
  /\ ~hasNextPage(current, props.limit)
  /\ remote = {}

====
